---- MODULE Spec2Model ----
(***************************************************************************)
(* Model of bin/generate-logo-gif.py: the Corsair logo animation.          *)
(* main() loads the font, computes the layout once, builds the frame       *)
(* sequence phase by phase (generate_frames), converts every RGBA frame    *)
(* to a palette image with a reserved transparent index, and hands the     *)
(* ordered palette images and durations to the GIF encoder.                *)
(***************************************************************************)
EXTENDS Integers, Sequences, FiniteSets, TLC

(***************************************************************************)
(* Bounds of the model                                                     *)
(***************************************************************************)
\* longest label (MAIN_TEXT) explored; "corsair" has 7 characters
MaxLabelLen == 7

(***************************************************************************)
(* Program constants                                                       *)
(***************************************************************************)
SKULL_SIZE == 18
SKULL_PX == 5
FLAG_W == SKULL_SIZE * SKULL_PX + 20
FLAG_H == SKULL_SIZE * SKULL_PX + 20
GAP == 24
\* colors=255 of convert("P", palette=ADAPTIVE, colors=255)
PALETTE_COLORS == 255
\* the index pasted where the mask is set, and the transparency= of save()
TRANSPARENT_INDEX == 255
\* the threshold of the mask lambda: a <= 128
ALPHA_THRESHOLD == 128
\* the multiplier of add(): d_cs * 10
MS_PER_CS == 10

\* per-step delays declared at the call sites of add(), in centiseconds
SHINE_DELAY == 4
FLAG_PAUSE_DELAY == 15
LETTER_DELAY == 10
SETTLE_DELAY == 350
SWEEP_DELAY == 5
FINAL_HOLD_DELAY == 250

\* columns of each row of SKULL_GRID that hold G (0-based); the others are _
SKULL_GRID ==
  << {6, 7, 8, 9, 10, 11},
     {5, 6, 7, 8, 9, 10, 11, 12},
     {4, 5, 6, 7, 8, 9, 10, 11, 12, 13},
     {4, 5, 6, 7, 8, 9, 10, 11, 12, 13},
     {4, 5, 8, 9, 12, 13},
     {4, 5, 8, 9, 12, 13},
     {5, 6, 7, 10, 11, 12},
     {6, 7, 8, 9, 10, 11},
     {7, 8, 9, 10},
     {6, 8, 9, 11},
     {7, 8, 9, 10},
     {1, 8, 9, 16},
     {2, 3, 14, 15},
     {3, 4, 5, 12, 13, 14},
     {5, 6, 7, 8, 9, 10, 11, 12},
     {3, 4, 5, 12, 13, 14},
     {2, 3, 14, 15},
     {1, 16} >>

\* the cells of SKULL_GRID that are not None, as <<row, col>> (0-based)
SkullCells ==
  { rc \in (0..(SKULL_SIZE - 1)) \X (0..(SKULL_SIZE - 1)) :
      rc[2] \in SKULL_GRID[rc[1] + 1] }

\* the letters of "corsair"
Corsair == << "c", "o", "r", "s", "a", "i", "r" >>

\* the label of length n: "corsair" cut or repeated to n characters
Label(n) == [ j \in 1..n |-> Corsair[((j - 1) % Len(Corsair)) + 1] ]

\* the fonts the external text library may supply: glyph widths and height
Fonts ==
  { [ name |-> "narrow", h |-> 70,
      w |-> [ ch \in {"c", "o", "r", "s", "a", "i"} |-> 60 ] ],
    [ name |-> "tall", h |-> 100,
      w |-> [ ch \in {"c", "o", "r", "s", "a", "i"} |->
                IF ch = "i" THEN 24 ELSE 66 ] ] }

\* alpha values of the pixel followed through the palette conversion
AlphaSamples == {0, 128, 129, 255}

NoFont == [ name |-> "none" ]
NoLayout == [ width |-> 0 ]
NoFlag == [ shown |-> FALSE ]
NoPixel == [ alpha |-> -1, index |-> -1 ]
NoSave == [ saved |-> FALSE ]

Abs(n) == IF n < 0 THEN -n ELSE n
Max(a, b) == IF a >= b THEN a ELSE b

RECURSIVE SumSeq(_)
SumSeq(s) == IF s = << >> THEN 0 ELSE Head(s) + SumSeq(Tail(s))

VARIABLES
  pc,          \* position of main()
  MAIN_TEXT,   \* the label
  main_font,   \* the loaded font
  layout,      \* the Layout computed by compute_layout
  frames,      \* generate_frames: frames
  durations,   \* generate_frames: durations
  phase_of,    \* for each frame, the phase block of generate_frames that added it
  col,         \* loop variable of the flag shine loops
  i,           \* loop variable of the typing and sweep loops
  k,           \* position of main's conversion loop in frames (1-based)
  p_frames,    \* main: p_frames
  pixel,       \* one pixel of the frame converted last: its alpha and its index
  saved        \* the arguments of p_frames[0].save(...)

vars == << pc, MAIN_TEXT, main_font, layout, frames, durations, phase_of,
           col, i, k, p_frames, pixel, saved >>

(***************************************************************************)
(* The external text library                                               *)
(***************************************************************************)
RECURSIVE TextWidth(_, _)
TextWidth(font, text) ==
  IF text = << >> THEN 0 ELSE font.w[Head(text)] + TextWidth(font, Tail(text))

\* font.getbbox(text) as <<x0, y0, x1, y1>>
getbbox(font, text) ==
  IF text = << >> THEN << 0, 0, 0, 0 >>
  ELSE << 0, 0, TextWidth(font, text), font.h >>

(***************************************************************************)
(* Layout                                                                  *)
(***************************************************************************)
compute_layout(font, text) ==
  LET bbox == getbbox(font, text)
      text_w == bbox[3] - bbox[1]
      text_h == bbox[4] - bbox[2]
      total_w == FLAG_W + GAP + text_w + 40
      total_h == Max(FLAG_H, text_h + 20) + 30
      flag_x == 20
      flag_y == (total_h - FLAG_H) \div 2
      text_x == flag_x + FLAG_W + GAP
      text_y == ((total_h - text_h) \div 2) - 10
  IN [ width |-> total_w, height |-> total_h,
       flag_x |-> flag_x, flag_y |-> flag_y,
       text_x |-> text_x, text_y |-> text_y ]

(***************************************************************************)
(* Rendering                                                               *)
(***************************************************************************)
\* the shine band two columns wide on each side
CellColor_WideBand(c, shine_col) ==
  IF shine_col >= 0 /\ Abs(c - shine_col) <= 2 THEN "GOLD_HI" ELSE "GOLD"

\* the colour draw_flag gives a grid cell in column c
CellColor(c, shine_col) ==
  IF shine_col >= 0 /\ Abs(c - shine_col) <= 1 THEN "GOLD_HI" ELSE "GOLD"

draw_flag(fx, fy, shine_col) ==
  LET skull_ox == fx + ((FLAG_W - SKULL_SIZE * SKULL_PX) \div 2)
      skull_oy == fy + ((FLAG_H - SKULL_SIZE * SKULL_PX) \div 2)
  IN [ shown |-> TRUE,
       rect |-> << fx, fy, fx + FLAG_W - 1, fy + FLAG_H - 1 >>,
       cells |-> [ rc \in SkullCells |->
                     [ px |-> skull_ox + rc[2] * SKULL_PX,
                       py |-> skull_oy + rc[1] * SKULL_PX,
                       color |-> CellColor(rc[2], shine_col) ] ] ]

\* the letters render_frame draws: the first visible_letters characters
RECURSIVE DrawText(_, _, _, _, _, _)
DrawText(font, text, n, x, y, glow_letter) ==
  \* n = index (0-based) of the first character of text in MAIN_TEXT
  IF text = << >> THEN << >>
  ELSE LET bbox == getbbox(font, << Head(text) >>)
       IN << [ ch |-> Head(text), x |-> x, y |-> y,
               color |-> IF n = glow_letter THEN "GOLD_HI" ELSE "PARCHMENT" ] >>
          \o DrawText(font, Tail(text), n + 1, x + (bbox[3] - bbox[1]) + 2,
                      y, glow_letter)

\* the canvas allocated with height and width exchanged
CanvasSize_Swapped(lay) == << lay.height, lay.width >>

\* the size of the canvas render_frame allocates
CanvasSize(lay) == << lay.width, lay.height >>

render_frame(id, lay, font, text, visible_letters, glow_letter, show_flag, flag_shine_col) ==
  [ id |-> id,
    width |-> CanvasSize(lay)[1],
    height |-> CanvasSize(lay)[2],
    flag |-> IF show_flag THEN draw_flag(lay.flag_x, lay.flag_y, flag_shine_col)
             ELSE NoFlag,
    letters |-> DrawText(font,
                         SubSeq(text, 1, IF visible_letters < Len(text)
                                         THEN Max(visible_letters, 0)
                                         ELSE Len(text)),
                         0, lay.text_x, lay.text_y, glow_letter) ]

(***************************************************************************)
(* Animation: generate_frames                                              *)
(***************************************************************************)
\* add() recording the delay as given, without the multiplication
DurationMs_Unscaled(d_cs) == d_cs

\* the duration add() records for a delay given in centiseconds
DurationMs(d_cs) == d_cs * MS_PER_CS

\* add(f, d_cs); phase names the block of generate_frames that makes the call
add(f, d_cs, phase) ==
  /\ frames' = Append(frames, f)
  /\ durations' = Append(durations, DurationMs(d_cs))
  /\ phase_of' = Append(phase_of, phase)

\* the identity of the image object the next render_frame call allocates
NextId == Len(frames) + 1

\* range(0, SKULL_SIZE, 2): first value, step and end of the shine loops
SHINE_START == 0
SHINE_STEP == 2
InShineRange(c) == c < SKULL_SIZE

\* range(1, len(MAIN_TEXT) + 1) and range(len(MAIN_TEXT))
TYPING_START == 1
\* the typing loop running one step too far
InTypingRange_Inclusive(n) == n <= Len(MAIN_TEXT) + 1
InTypingRange(n) == n < Len(MAIN_TEXT) + 1
SWEEP_START == 0
\* the sweep loop running one step too far
InSweepRange_Inclusive(n) == n <= Len(MAIN_TEXT)
InSweepRange(n) == n < Len(MAIN_TEXT)

\* the frames of the seven phases
ShineFrame1(c) ==
  render_frame(NextId, layout, main_font, MAIN_TEXT, 0, -1, TRUE, c)
FlagPauseFrame ==
  render_frame(NextId, layout, main_font, MAIN_TEXT, 0, -1, TRUE, -1)
\* the typing frame with glow_letter=i in place of glow_letter=i-1
TypingFrame_GlowNext(n) ==
  render_frame(NextId, layout, main_font, MAIN_TEXT, n, n, TRUE, -1)
TypingFrame(n) ==
  render_frame(NextId, layout, main_font, MAIN_TEXT, n, n - 1, TRUE, -1)
\* the settled frame with the first letter left glowing
SettledFrame_Glow ==
  render_frame(NextId, layout, main_font, MAIN_TEXT, Len(MAIN_TEXT), 0,
               TRUE, -1)
SettledFrame ==
  render_frame(NextId, layout, main_font, MAIN_TEXT, Len(MAIN_TEXT), -1,
               TRUE, -1)
SweepFrame(n) ==
  render_frame(NextId, layout, main_font, MAIN_TEXT, Len(MAIN_TEXT), n,
               TRUE, -1)
ShineFrame2(c) ==
  render_frame(NextId, layout, main_font, MAIN_TEXT, Len(MAIN_TEXT), -1,
               TRUE, c)
FinalHoldFrame ==
  render_frame(NextId, layout, main_font, MAIN_TEXT, Len(MAIN_TEXT), -1,
               TRUE, -1)

(***************************************************************************)
(* Palette conversion and encoding                                         *)
(***************************************************************************)
\* the mask lambda with a < 128 in place of a <= 128
Mask_Strict(a) == IF a < ALPHA_THRESHOLD THEN 255 ELSE 0

\* alpha.point(lambda a: 255 if a <= 128 else 0)
Mask(a) == IF a <= ALPHA_THRESHOLD THEN 255 ELSE 0

\* the indices convert("P", palette=ADAPTIVE, colors=255) can give a pixel
QuantIndices == 0..(PALETTE_COLORS - 1)

\* the quantized indices followed through the conversion
QuantSamples == { q \in QuantIndices : q = 0 \/ q = PALETTE_COLORS - 1 }

\* p.paste(255, mask) on a pixel of alpha a that was quantized to index q
ConvertPixel(a, q) ==
  [ alpha |-> a, index |-> IF Mask(a) = 255 THEN TRANSPARENT_INDEX ELSE q ]

\* the palette image made of frame f
ConvertFrame(f) ==
  [ src |-> f.id, mode |-> "P", width |-> f.width, height |-> f.height ]

\* append_images=p_frames, which repeats the first image
AppendImages_All == p_frames

\* append_images=p_frames[1:]
AppendImages == Tail(p_frames)

\* main dividing the durations by 10 before the call of save()
SaveDuration_Rescaled ==
  [ n \in 1..Len(durations) |-> durations[n] \div 10 ]

\* duration=durations
SaveDuration == durations

\* the images in the order the encoder writes them
EncoderInput == << saved.first >> \o saved.append_images

(***************************************************************************)
(* main                                                                    *)
(***************************************************************************)
Init ==
  /\ pc = "start"
  /\ MAIN_TEXT \in { Label(n) : n \in 0..MaxLabelLen }
  /\ main_font = NoFont
  /\ layout = NoLayout
  /\ frames = << >>
  /\ durations = << >>
  /\ phase_of = << >>
  /\ col = 0
  /\ i = 0
  /\ k = 0
  /\ p_frames = << >>
  /\ pixel = NoPixel
  /\ saved = NoSave

\* os.path.exists(FONT_PATH) is false: main prints the error and returns
MainFontMissing ==
  /\ pc = "start"
  /\ pc' = "exit"
  /\ UNCHANGED << MAIN_TEXT, main_font, layout, frames, durations, phase_of,
                  col, i, k, p_frames, pixel, saved >>

\* main_font = ImageFont.truetype(FONT_PATH, MAIN_SIZE)
MainLoadFont ==
  /\ pc = "start"
  /\ \E f \in Fonts : main_font' = f
  /\ pc' = "layout"
  /\ UNCHANGED << MAIN_TEXT, layout, frames, durations, phase_of,
                  col, i, k, p_frames, pixel, saved >>

\* layout = compute_layout(main_font); generate_frames is entered
MainComputeLayout ==
  /\ pc = "layout"
  /\ layout' = compute_layout(main_font, MAIN_TEXT)
  /\ frames' = << >>
  /\ durations' = << >>
  /\ phase_of' = << >>
  /\ col' = SHINE_START
  /\ pc' = "phase1"
  /\ UNCHANGED << MAIN_TEXT, main_font, i, k, p_frames, pixel, saved >>

\* Phase 1: one iteration of the flag shine loop
Phase1Shine ==
  /\ pc = "phase1"
  /\ InShineRange(col)
  /\ add(ShineFrame1(col), SHINE_DELAY, "shine1")
  /\ col' = col + SHINE_STEP
  /\ UNCHANGED << pc, MAIN_TEXT, main_font, layout, i, k, p_frames, pixel,
                  saved >>

\* Phase 2: flag settled, brief pause
Phase2Pause ==
  /\ pc = "phase1"
  /\ ~InShineRange(col)
  /\ add(FlagPauseFrame, FLAG_PAUSE_DELAY, "pause")
  /\ i' = TYPING_START
  /\ pc' = "phase3"
  /\ UNCHANGED << MAIN_TEXT, main_font, layout, col, k, p_frames, pixel,
                  saved >>

\* Phase 3: one iteration of the typing loop
Phase3Typing ==
  /\ pc = "phase3"
  /\ InTypingRange(i)
  /\ add(TypingFrame(i), LETTER_DELAY, "typing")
  /\ i' = i + 1
  /\ UNCHANGED << pc, MAIN_TEXT, main_font, layout, col, k, p_frames, pixel,
                  saved >>

\* Phase 4: all settled, main hold
Phase4Settled ==
  /\ pc = "phase3"
  /\ ~InTypingRange(i)
  /\ add(SettledFrame, SETTLE_DELAY, "settled")
  /\ i' = SWEEP_START
  /\ pc' = "phase5"
  /\ UNCHANGED << MAIN_TEXT, main_font, layout, col, k, p_frames, pixel,
                  saved >>

\* Phase 5: one iteration of the gold pulse sweep across the text
Phase5Sweep ==
  /\ pc = "phase5"
  /\ InSweepRange(i)
  /\ add(SweepFrame(i), SWEEP_DELAY, "sweep")
  /\ i' = i + 1
  /\ UNCHANGED << pc, MAIN_TEXT, main_font, layout, col, k, p_frames, pixel,
                  saved >>

\* the sweep loop ends and the second flag shine loop starts
Phase6Enter ==
  /\ pc = "phase5"
  /\ ~InSweepRange(i)
  /\ col' = SHINE_START
  /\ pc' = "phase6"
  /\ UNCHANGED << MAIN_TEXT, main_font, layout, frames, durations, phase_of,
                  i, k, p_frames, pixel, saved >>

\* Phase 6: one iteration of the second flag shine loop
Phase6Shine ==
  /\ pc = "phase6"
  /\ InShineRange(col)
  /\ add(ShineFrame2(col), SHINE_DELAY, "shine2")
  /\ col' = col + SHINE_STEP
  /\ UNCHANGED << pc, MAIN_TEXT, main_font, layout, i, k, p_frames, pixel,
                  saved >>

\* Phase 7: final hold; generate_frames returns and main starts converting
Phase7FinalHold ==
  /\ pc = "phase6"
  /\ ~InShineRange(col)
  /\ add(FinalHoldFrame, FINAL_HOLD_DELAY, "final")
  /\ p_frames' = << >>
  /\ k' = 1
  /\ pc' = "convert"
  /\ UNCHANGED << MAIN_TEXT, main_font, layout, col, i, pixel, saved >>

\* one iteration of "for frame in frames": frame k becomes a palette image
MainConvert ==
  /\ pc = "convert"
  /\ k <= Len(frames)
  /\ \E a \in AlphaSamples, q \in QuantSamples : pixel' = ConvertPixel(a, q)
  /\ p_frames' = Append(p_frames, ConvertFrame(frames[k]))
  /\ k' = k + 1
  /\ UNCHANGED << pc, MAIN_TEXT, main_font, layout, frames, durations,
                  phase_of, col, i, saved >>

\* p_frames[0].save(output_path, save_all=True, append_images=...)
MainSave ==
  /\ pc = "convert"
  /\ k > Len(frames)
  /\ saved' = [ saved |-> TRUE,
                first |-> p_frames[1],
                append_images |-> AppendImages,
                duration |-> SaveDuration,
                loop |-> 0,
                transparency |-> TRANSPARENT_INDEX,
                disposal |-> 2 ]
  /\ pc' = "done"
  /\ UNCHANGED << MAIN_TEXT, main_font, layout, frames, durations, phase_of,
                  col, i, k, p_frames, pixel >>

Next ==
  \/ MainFontMissing
  \/ MainLoadFont
  \/ MainComputeLayout
  \/ Phase1Shine
  \/ Phase2Pause
  \/ Phase3Typing
  \/ Phase4Settled
  \/ Phase5Sweep
  \/ Phase6Enter
  \/ Phase6Shine
  \/ Phase7FinalHold
  \/ MainConvert
  \/ MainSave

Spec == Init /\ [][Next]_vars

(***************************************************************************)
(* Reading a frame sequence                                                *)
(***************************************************************************)
\* generate_frames has returned its frames and durations to main
Generated == pc \in {"convert", "done"}

\* the label length N
N == Len(MAIN_TEXT)

\* what a rendered frame shows
visibleCount(f) == Len(f.letters)
HighlightedSet(f) ==
  { j - 1 : j \in { m \in 1..Len(f.letters) : f.letters[m].color = "GOLD_HI" } }
ShineCells(f) == { rc \in SkullCells : f.flag.cells[rc].color = "GOLD_HI" }
NoFlagShine(f) ==
  f.flag.shown /\ \A rc \in SkullCells : f.flag.cells[rc].color = "GOLD"

\* the positions of the frames of a phase, and the rank of one among them
Idx(phase) == { n \in 1..Len(frames) : phase_of[n] = phase }
Rank(phase, n) == Cardinality({ m \in Idx(phase) : m <= n })

\* the number of values of range(0, SKULL_SIZE, 2)
ShineSteps == (SKULL_SIZE + 1) \div 2

\* the delay, in centiseconds, declared at the call site of each phase
DeclaredDelay(phase) ==
  CASE phase = "shine1" -> 4
    [] phase = "pause" -> 15
    [] phase = "typing" -> 10
    [] phase = "settled" -> 350
    [] phase = "sweep" -> 5
    [] phase = "shine2" -> 4
    [] phase = "final" -> 250

\* sum over the phases of step count x per-step delay, in centiseconds
TimelineTotal(n) ==
  ShineSteps * 4 + 1 * 15 + n * 10 + 1 * 350 + n * 5 + ShineSteps * 4 + 1 * 250

\* the typing frames are N in number, show 1..N letters in order, and
\* highlight the letter typed last
TypingShape ==
  /\ Cardinality(Idx("typing")) = N
  /\ \A n \in Idx("typing") :
       /\ visibleCount(frames[n]) = Rank("typing", n)
       /\ HighlightedSet(frames[n]) = { visibleCount(frames[n]) - 1 }
  /\ \A a, b \in Idx("typing") :
       a < b => visibleCount(frames[a]) < visibleCount(frames[b])

\* a frame with all N letters visible, none highlighted, no flag shine
IsHoldState(f) ==
  /\ visibleCount(f) = N
  /\ HighlightedSet(f) = {}
  /\ NoFlagShine(f)

(***************************************************************************)
(* C1                                                                      *)
(***************************************************************************)
\* C1 as stated: the Typing phase contributes exactly N frames, each recorded
\* with duration 10, visibleCount strictly increasing 1..N in order and
\* highlighted = visibleCount - 1 in each frame.
C1_TypingDurationTen ==
  Generated =>
    /\ TypingShape
    /\ \A n \in Idx("typing") : durations[n] = 10

\* C1 amended: the Typing phase contributes exactly N frames, each recorded
\* with duration 100 (the declared 10 centiseconds, stored by add() as
\* milliseconds), visibleCount strictly increasing 1..N in order and
\* highlighted = visibleCount - 1 in each frame.
C1_TypingFrames ==
  Generated =>
    /\ TypingShape
    /\ \A n \in Idx("typing") : durations[n] = 100

\* a run with the 7-letter label has produced its 7 typing frames
C1_Witness ==
  /\ Generated
  /\ N = 7
  /\ Cardinality(Idx("typing")) = 7
  /\ \E n \in Idx("typing") :
       visibleCount(frames[n]) = 7 /\ HighlightedSet(frames[n]) = {6}

(***************************************************************************)
(* C2                                                                      *)
(***************************************************************************)
\* C2: the Sweep phase produces exactly N frames, highlighted taking the
\* values 0..N-1 in increasing order, every one with visibleCount = N and
\* no flag shine column set.
C2_SweepFrames ==
  Generated =>
    /\ Cardinality(Idx("sweep")) = N
    /\ \A n \in Idx("sweep") :
         /\ HighlightedSet(frames[n]) = { Rank("sweep", n) - 1 }
         /\ visibleCount(frames[n]) = N
         /\ NoFlagShine(frames[n])

\* a run with the 7-letter label has produced its 7 sweep frames
C2_Witness ==
  /\ Generated
  /\ N = 7
  /\ Cardinality(Idx("sweep")) = 7
  /\ \E n \in Idx("sweep") : HighlightedSet(frames[n]) = {6}

(***************************************************************************)
(* C3                                                                      *)
(***************************************************************************)
\* the place of a phase in the sequence
PhaseOrder(phase) ==
  CASE phase = "shine1" -> 1
    [] phase = "pause" -> 2
    [] phase = "typing" -> 3
    [] phase = "settled" -> 4
    [] phase = "sweep" -> 5
    [] phase = "shine2" -> 6
    [] phase = "final" -> 7

\* C3: the phases occur in order and never interleave: every frame of the
\* first FlagShine sequence precedes the first Typing frame; the Typing(N)
\* frame is immediately followed by the Settled frame (visibleCount = N,
\* nothing highlighted); the Settled frame is immediately followed by
\* Sweep(0), the first frame of the Sweep phase (a label without letters has
\* no Sweep frame, and the second FlagShine sequence follows at once);
\* Sweep(N-1) is followed by no other Sweep frame but by the second FlagShine
\* sequence; the FinalHold frame (visibleCount = N, nothing highlighted) is
\* the last frame.
C3_PhaseOrder ==
  Generated =>
    /\ \A a, b \in 1..Len(frames) :
         a < b => PhaseOrder(phase_of[a]) <= PhaseOrder(phase_of[b])
    /\ Idx("shine1") # {}
    /\ \A a \in Idx("shine1"), b \in Idx("typing") : a < b
    /\ \A n \in Idx("typing") :
         visibleCount(frames[n]) = N =>
           /\ n + 1 \in Idx("settled")
           /\ IsHoldState(frames[n + 1])
    /\ Cardinality(Idx("settled")) = 1
    /\ \A n \in Idx("settled") :
         /\ IsHoldState(frames[n])
         /\ IF N >= 1
            THEN /\ n + 1 \in Idx("sweep")
                 /\ HighlightedSet(frames[n + 1]) = {0}
            ELSE /\ Idx("sweep") = {}
                 /\ n + 1 \in Idx("shine2")
    /\ \A n \in Idx("sweep") :
         HighlightedSet(frames[n]) = {N - 1} =>
           /\ \A m \in Idx("sweep") : m <= n
           /\ Idx("shine2") = (n + 1)..(n + ShineSteps)
    /\ Idx("final") = { Len(frames) }
    /\ IsHoldState(frames[Len(frames)])

\* a finished sequence of the 7-letter label: Typing(7), Settled, Sweep(0)
\* are neighbours, and so are Sweep(6) and the second FlagShine sequence
C3_Witness ==
  /\ Generated
  /\ N = 7
  /\ \E n \in Idx("typing") :
       /\ visibleCount(frames[n]) = 7
       /\ phase_of[n + 1] = "settled"
       /\ phase_of[n + 2] = "sweep"
  /\ \E n \in Idx("sweep") :
       HighlightedSet(frames[n]) = {6} /\ phase_of[n + 1] = "shine2"
  /\ phase_of[Len(frames)] = "final"

(***************************************************************************)
(* C4                                                                      *)
(***************************************************************************)
\* C4 as stated: the sum of the returned durations equals the sum over all
\* phases of step count x per-step duration, with the per-step durations
\* declared at the call sites (4, 15, 10, 350, 5, 4, 250).
C4_SumIsDeclaredTotal ==
  Generated => SumSeq(durations) = TimelineTotal(N)

\* C4 amended: the sum of the returned durations equals 10 times the sum
\* over all phases of step count x per-step duration declared at the call
\* sites, because add() stores each declared delay multiplied by 10.
C4_DurationAccounting ==
  Generated => SumSeq(durations) = 10 * TimelineTotal(N)

\* the timeline of the 7-letter label: 687 + 15 * 7 = 792 centiseconds
C4_Witness ==
  /\ Generated
  /\ N = 7
  /\ Len(durations) = 2 * ShineSteps + 2 * 7 + 3
  /\ SumSeq(durations) = 7920

(***************************************************************************)
(* C5                                                                      *)
(***************************************************************************)
\* C5 as stated: the durations generate_frames returns are in hundredths of
\* a second exactly as declared per phase; generate_frames converts nothing.
C5_NoConversionInBuilder ==
  Generated =>
    \A n \in 1..Len(durations) : durations[n] = DeclaredDelay(phase_of[n])

\* C5 amended: the durations generate_frames returns are in milliseconds,
\* each 10 times the hundredths declared for its phase: the conversion is
\* made by add() inside generate_frames, and main hands the list to the
\* encoder unchanged.
C5_ConversionInBuilder ==
  /\ Generated =>
       /\ Len(durations) = Len(phase_of)
       /\ \A n \in 1..Len(durations) :
            durations[n] = 10 * DeclaredDelay(phase_of[n])
  /\ saved.saved =>
       /\ Len(saved.duration) = Len(phase_of)
       /\ \A n \in 1..Len(saved.duration) :
            saved.duration[n] = 10 * DeclaredDelay(phase_of[n])

\* the encoder has been handed the durations of a whole timeline
C5_Witness ==
  /\ saved.saved
  /\ N = 7
  /\ \E n \in 1..Len(saved.duration) : saved.duration[n] = 3500
  /\ \E n \in 1..Len(saved.duration) : saved.duration[n] = 40

(***************************************************************************)
(* C6                                                                      *)
(***************************************************************************)
\* exactly one Typing frame, showing 1 letter with letter 0 highlighted, and
\* the Settled frame right after it
OneTypingFrameThenSettled ==
  /\ Cardinality(Idx("typing")) = 1
  /\ \A n \in Idx("typing") :
       /\ visibleCount(frames[n]) = 1
       /\ HighlightedSet(frames[n]) = {0}
       /\ n + 1 \in Idx("settled")
       /\ IsHoldState(frames[n + 1])

\* C6 as stated: a label of length 0 gives a sequence without Typing frame
\* whose first frame is the Settled frame; a label of length 1 gives exactly
\* one Typing frame (visibleCount = 1, highlighted = 0) before Settled.
C6_EmptyLabelBeginsAtSettled ==
  Generated =>
    /\ N = 0 => /\ Idx("typing") = {}
                /\ phase_of[1] = "settled"
    /\ N = 1 => OneTypingFrameThenSettled

\* C6 amended: a label of length 0 gives a sequence without Typing frame in
\* which the Settled frame comes right after the flag phases (the first
\* FlagShine sequence, which begins the sequence, and the flag pause frame);
\* a label of length 1 gives exactly one Typing frame (visibleCount = 1,
\* highlighted = 0) before Settled.
C6_BoundaryLabels ==
  Generated =>
    /\ N = 0 => /\ Idx("typing") = {}
                /\ phase_of[1] = "shine1"
                /\ ShineCells(frames[1]) # {}
                /\ Idx("shine1") = 1..ShineSteps
                /\ Idx("pause") = { ShineSteps + 1 }
                /\ Idx("settled") = { ShineSteps + 2 }
                /\ IsHoldState(frames[ShineSteps + 2])
    /\ N = 1 => OneTypingFrameThenSettled

\* a finished sequence of the empty label
C6_Witness ==
  /\ Generated
  /\ N = 0
  /\ Idx("typing") = {}
  /\ Idx("settled") # {}

(***************************************************************************)
(* C7                                                                      *)
(***************************************************************************)
\* C7: in the palette conversion each pixel with alpha <= 128 gets the
\* reserved transparent index 255, and each pixel with alpha > 128 keeps an
\* opaque palette index, which lies in 0..254 and is never 255.
C7_AlphaThreshold ==
  pixel # NoPixel =>
    /\ pixel.alpha <= 128 => pixel.index = 255
    /\ pixel.alpha > 128 => pixel.index \in 0..254 /\ pixel.index # 255

\* a pixel of alpha exactly 128 has been converted
C7_Witness ==
  /\ pc = "convert"
  /\ Len(p_frames) >= 1
  /\ pixel.alpha = 128
  /\ pixel.index = 255

(***************************************************************************)
(* C8                                                                      *)
(***************************************************************************)
\* C8: frame order is preserved end to end: the i-th palette image handed to
\* the encoder is the conversion of the i-th generated frame and is paired
\* with the i-th duration; the first generated frame is written first; the
\* numbers of palette images, of generated frames and of durations are equal.
C8_OrderPreserved ==
  /\ \A a, b \in 1..Len(frames) : a # b => frames[a].id # frames[b].id
  /\ Len(p_frames) <= Len(frames)
  /\ \A n \in 1..Len(p_frames) : p_frames[n].src = frames[n].id
  /\ saved.saved =>
       /\ Len(EncoderInput) = Len(frames)
       /\ Len(saved.duration) = Len(frames)
       /\ Len(p_frames) = Len(frames)
       /\ saved.first.src = frames[1].id
       /\ \A n \in 1..Len(frames) :
            /\ EncoderInput[n].src = frames[n].id
            /\ EncoderInput[n].width = frames[n].width
            /\ EncoderInput[n].height = frames[n].height
            /\ saved.duration[n] = durations[n]

\* the whole sequence of the 7-letter label has been handed to the encoder
C8_Witness ==
  /\ pc = "done"
  /\ saved.saved
  /\ N = 7
  /\ Len(EncoderInput) = 2 * ShineSteps + 2 * 7 + 3

(***************************************************************************)
(* C9                                                                      *)
(***************************************************************************)
\* C9: every frame generate_frames produces has the width and the height of
\* the Layout that compute_layout computed once at the start of the run,
\* whatever its phase and visual state.
C9_FrameDimensions ==
  /\ pc \notin {"start", "layout", "exit"} =>
       layout = compute_layout(main_font, MAIN_TEXT)
  /\ \A n \in 1..Len(frames) :
       /\ frames[n].width = layout.width
       /\ frames[n].height = layout.height

\* every phase has produced frames on a canvas wider than it is high
C9_Witness ==
  /\ Generated
  /\ N = 7
  /\ layout.width > layout.height
  /\ \A ph \in {"shine1", "pause", "typing", "settled", "sweep", "shine2",
                "final"} :
       \E n \in Idx(ph) : frames[n].width = layout.width

(***************************************************************************)
(* C10                                                                     *)
(***************************************************************************)
\* the frame shows the flag with the shine centred at column c: the glyph
\* cells within +/-1 of c are highlighted, all others have the base colour
ShineCentredAt(f, c) ==
  /\ f.flag.shown
  /\ \A rc \in SkullCells :
       f.flag.cells[rc].color =
         IF rc[2] \in {c - 1, c, c + 1} THEN "GOLD_HI" ELSE "GOLD"

\* C10: each of the two FlagShine sequences steps the shine column by 2
\* across the grid width (0, 2, ..., 16 for the 18-column grid, in increasing
\* order, one frame per value); each frame renders the flag with the shine
\* centred at that column, no letter highlighted, and the text at its
\* then-current state: 0 visible letters before Typing, all N after Sweep.
C10_FlagShine ==
  Generated =>
    \A ph \in {"shine1", "shine2"} :
      /\ Cardinality(Idx(ph)) = 9
      /\ \A n \in Idx(ph) :
           /\ ShineCentredAt(frames[n], 2 * (Rank(ph, n) - 1))
           /\ 2 * (Rank(ph, n) - 1) \in 0..16
           /\ HighlightedSet(frames[n]) = {}
           /\ visibleCount(frames[n]) = IF ph = "shine1" THEN 0 ELSE N

\* both FlagShine sequences of the 7-letter label have reached column 16
C10_Witness ==
  /\ Generated
  /\ N = 7
  /\ \A ph \in {"shine1", "shine2"} :
       \E n \in Idx(ph) :
         { rc[2] : rc \in ShineCells(frames[n]) } = {15, 16}

====
